---- MODULE Spec2Model ----
(***************************************************************************)
(* ALISTAmodel and GLISTAmodel (opt_guarantees/alista_model.py and         *)
(* opt_guarantees/glista_model.py): parameter initialisation, the forward  *)
(* pass built by create_end2end_loss_fn, and the penalty engine.           *)
(*                                                                         *)
(* Numbers.  A jax scalar is a record [k, v].  k = "fin" is the finite     *)
(* number v / ONE (fixed point, six decimals); "nan", "pinf", "ninf" are   *)
(* the IEEE special values, which jax.numpy returns instead of raising;    *)
(* "err" is the outcome "an exception was raised".  exp, log and sqrt are  *)
(* computed by series in the fixed-point format.  Finite magnitudes stay   *)
(* below 2147 so that every intermediate product fits a machine integer.   *)
(***************************************************************************)
EXTENDS Integers, Sequences, FiniteSets, TLC

VARIABLES model, cur, prev, qret

vars == <<model, cur, prev, qret>>

----------------------------------------------------------------------------
(* Bounds of the model.                                                    *)

MaxUnroll == 2

----------------------------------------------------------------------------
(* Fixed-point arithmetic.                                                 *)

KILO == 10 * 10 * 10
ONE == KILO * KILO
HALF == ONE \div 2
E_FIX == 2718 * KILO + 282
LN2_FIX == 693 * KILO + 147
PI_FIX == 3141 * KILO + 593
EXP_MAX == 7 * ONE
EXP_MIN == -(13 * ONE)

Fin(v) == [k |-> "fin", v |-> v]
NaN == [k |-> "nan", v |-> 0]
PInf == [k |-> "pinf", v |-> 0]
NInf == [k |-> "ninf", v |-> 0]
Err == [k |-> "err", v |-> 0]
Num(i) == Fin(i * ONE)

MulU(a, b) ==
    LET ah == a \div KILO
        al == a % KILO
        bh == b \div KILO
        bl == b % KILO
        mid == ah * bl + al * bh
    IN  ah * bh + mid \div KILO + (al * bl + (mid % KILO) * KILO + HALF) \div ONE

RECURSIVE DivDigits(_, _, _)
DivDigits(r, b, n) ==
    IF n = 0 THEN (IF 2 * r >= b THEN 1 ELSE 0)
    ELSE ((r * 10) \div b) * 10^(n - 1) + DivDigits((r * 10) % b, b, n - 1)

DivU(a, b) == (a \div b) * ONE + DivDigits(a % b, b, 6)

RECURSIVE SqrtNewton(_, _)
SqrtNewton(v, x) ==
    LET y == (x + DivU(v, x)) \div 2
    IN  IF y >= x THEN x ELSE SqrtNewton(v, y)

(* a power of two times KILO that is not below the root of v * ONE *)
SqrtStart(v) == KILO * 2^(CHOOSE j \in 0..16 :
                            (v \div 2^j) \div 2^j = 0
                            /\ (j = 0 \/ (v \div 2^(j - 1)) \div 2^(j - 1) # 0))

SqrtU(v) == IF v = 0 THEN 0 ELSE SqrtNewton(v, SqrtStart(v))

RECURSIVE LnSeries(_, _, _)
LnSeries(t2, pw, k) ==
    IF pw = 0 \/ k > 21 THEN 0
    ELSE pw \div k + LnSeries(t2, MulU(pw, t2), k + 2)

(* the number of halvings (doublings) that bring x into [ONE, 2 * ONE) *)
Halvings(x) ==
    CHOOSE j \in 0..11 :
        x \div 2^j < 2 * ONE /\ (j = 0 \/ x \div 2^(j - 1) >= 2 * ONE)
Doublings(x) ==
    CHOOSE j \in 0..20 :
        x >= (ONE + 2^j - 1) \div 2^j /\ (j = 0 \/ x < (ONE + 2^(j - 1) - 1) \div 2^(j - 1))

LnNear1(x, n) ==
    LET t == DivU(x - ONE, x + ONE)
    IN  n * LN2_FIX + 2 * LnSeries(MulU(t, t), t, 1)

LnU(x) ==
    IF x >= ONE THEN LnNear1(x \div 2^Halvings(x), Halvings(x))
    ELSE LnNear1(x * 2^Doublings(x), -Doublings(x))

RECURSIVE ExpSeries(_, _, _)
ExpSeries(f, term, k) ==
    IF term = 0 \/ k > 14 THEN 0
    ELSE term + ExpSeries(f, MulU(term, f) \div k, k + 1)

RECURSIVE ExpScale(_, _)
ExpScale(m, n) ==
    IF m = 0 \/ n = 0 THEN m
    ELSE IF n > 0 THEN ExpScale(MulU(m, E_FIX), n - 1)
    ELSE ExpScale(DivU(m, E_FIX), n + 1)

ExpU(x) ==
    LET n == IF x >= 0 THEN x \div ONE ELSE -((-x + ONE - 1) \div ONE)
        f == x - n * ONE
    IN  ExpScale(ExpSeries(f, ONE, 1), n)

----------------------------------------------------------------------------
(* jax.numpy scalar operations on [k, v] records.                          *)

IsErr(a) == a.k = "err"
IsNaN(a) == a.k = "nan"
IsFin(a) == a.k = "fin"
IsInf(a) == a.k \in {"pinf", "ninf"}
SignOf(a) ==
    IF a.k = "pinf" THEN 1
    ELSE IF a.k = "ninf" THEN -1
    ELSE IF a.v > 0 THEN 1 ELSE IF a.v < 0 THEN -1 ELSE 0
InfOfSign(s) == IF s > 0 THEN PInf ELSE NInf
AbsI(i) == IF i < 0 THEN -i ELSE i

Neg(a) ==
    CASE a.k = "fin" -> Fin(-a.v)
      [] a.k = "pinf" -> NInf
      [] a.k = "ninf" -> PInf
      [] OTHER -> a

Add(a, b) ==
    CASE a.k = "err" -> Err
      [] b.k = "err" -> Err
      [] IsNaN(a) \/ IsNaN(b) -> NaN
      [] IsInf(a) /\ IsInf(b) -> (IF a.k = b.k THEN a ELSE NaN)
      [] IsInf(a) -> a
      [] IsInf(b) -> b
      [] OTHER -> Fin(a.v + b.v)

Sub(a, b) == Add(a, Neg(b))

Mul(a, b) ==
    CASE a.k = "err" -> Err
      [] b.k = "err" -> Err
      [] IsNaN(a) \/ IsNaN(b) -> NaN
      [] IsInf(a) \/ IsInf(b) ->
            (IF SignOf(a) * SignOf(b) = 0 THEN NaN
             ELSE InfOfSign(SignOf(a) * SignOf(b)))
      [] OTHER -> Fin(SignOf(a) * SignOf(b) * MulU(AbsI(a.v), AbsI(b.v)))

Div(a, b) ==
    CASE a.k = "err" -> Err
      [] b.k = "err" -> Err
      [] IsNaN(a) \/ IsNaN(b) -> NaN
      [] IsInf(a) /\ IsInf(b) -> NaN
      [] IsInf(b) -> Fin(0)
      [] IsInf(a) -> InfOfSign(SignOf(a) * (IF b.v < 0 THEN -1 ELSE 1))
      [] b.v = 0 -> (IF a.v = 0 THEN NaN ELSE InfOfSign(SignOf(a)))
      [] OTHER -> Fin(SignOf(a) * SignOf(b) * DivU(AbsI(a.v), AbsI(b.v)))

math_log(a) ==
    CASE a.k = "err" -> Err
      [] IsNaN(a) -> NaN
      [] a.k = "pinf" -> PInf
      [] a.k = "ninf" \/ a.v <= 0 -> Err
      [] OTHER -> Fin(LnU(a.v))

jnp_log(a) ==
    CASE a.k = "err" -> Err
      [] IsNaN(a) -> NaN
      [] a.k = "pinf" -> PInf
      [] a.k = "ninf" -> NaN
      [] a.v < 0 -> NaN
      [] a.v = 0 -> NInf
      [] OTHER -> Fin(LnU(a.v))

jnp_exp(a) ==
    CASE a.k = "err" -> Err
      [] IsNaN(a) -> NaN
      [] a.k = "pinf" -> PInf
      [] a.k = "ninf" -> Fin(0)
      [] a.v > EXP_MAX -> PInf
      [] a.v < EXP_MIN -> Fin(0)
      [] OTHER -> Fin(ExpU(a.v))

jnp_sqrt(a) ==
    CASE a.k = "err" -> Err
      [] IsNaN(a) -> NaN
      [] a.k = "pinf" -> PInf
      [] a.k = "ninf" \/ a.v < 0 -> NaN
      [] OTHER -> Fin(SqrtU(a.v))

Lt(a, b) ==
    CASE a.k = "ninf" -> b.k # "ninf"
      [] a.k = "pinf" -> FALSE
      [] b.k = "pinf" -> TRUE
      [] b.k = "ninf" -> FALSE
      [] OTHER -> a.v < b.v

jnp_clip(x, a_max) ==
    CASE x.k = "err" -> Err
      [] a_max.k = "err" -> Err
      [] IsNaN(x) \/ IsNaN(a_max) -> NaN
      [] Lt(a_max, x) -> a_max
      [] OTHER -> x

jnp_pi == Fin(PI_FIX)
EPS_1e6 == Fin(ONE \div ONE)
LAMBD_01 == Fin(ONE \div 10)
TWO == Num(2)
SIX == Num(6)

----------------------------------------------------------------------------
(* Arrays: a vector is a sequence of scalars, a matrix a sequence of rows. *)

Vec(n, x) == [i \in 1..n |-> x]
Mat(r, c, x) == [i \in 1..r |-> Vec(c, x)]
jnp_ones(r, c) == Mat(r, c, Num(1))
jnp_zeros(n) == Vec(n, Fin(0))
Rows(M) == Len(M)
Cols(M) == IF Len(M) = 0 THEN 0 ELSE Len(M[1])
Col(M, j) == [i \in 1..Len(M) |-> M[i][j]]
SetCol(M, j, x) == [i \in 1..Len(M) |-> [M[i] EXCEPT ![j] = x]]
VecExp(v) == [i \in 1..Len(v) |-> jnp_exp(v[i])]

RECURSIVE DotCols(_, _, _, _)
DotCols(M, i, j, k) ==
    IF k = 0 THEN Fin(0)
    ELSE Add(DotCols(M, i, j, k - 1), Mul(M[k][i], M[k][j]))

(* D.T @ D *)
Gram(D) == [i \in 1..Cols(D) |-> [j \in 1..Cols(D) |-> DotCols(D, i, j, Rows(D))]]

(* evals.max() of jnp.linalg.eigh for a symmetric matrix of order 1 or 2 *)
eigh_max(G) ==
    IF Len(G) = 1 THEN G[1][1]
    ELSE LET mid == Div(Add(G[1][1], G[2][2]), TWO)
             dif == Div(Sub(G[1][1], G[2][2]), TWO)
         IN  Add(mid, jnp_sqrt(Add(Mul(dif, dif), Mul(G[1][2], G[1][2]))))

----------------------------------------------------------------------------
(* The two classes and what the base-class constructor supplies.           *)

Classes == {"ALISTAmodel", "GLISTAmodel"}
Width(cls) == IF cls = "ALISTAmodel" THEN 2 ELSE 5
AlgoName(cls) == IF cls = "ALISTAmodel" THEN "alista" ELSE "glista"
TrainKernel(cls) ==
    IF cls = "ALISTAmodel" THEN "k_steps_train_alista" ELSE "k_steps_train_glista"
EvalKernel(cls) ==
    IF cls = "ALISTAmodel" THEN "k_steps_eval_alista" ELSE "k_steps_eval_glista"

NoMat == << >>
NotPassed == [k |-> "absent", v |-> 0]
NoFn == [fn |-> "None", D |-> NoMat, W |-> NoMat, jit |-> FALSE, kw |-> {}]
UserFn(name) == [fn |-> name, D |-> NoMat, W |-> NoMat, jit |-> FALSE, kw |-> {}]
(* functools.partial(kernel, D=D, W=W, jit=jit) *)
partial(name, D, W, jit) ==
    [fn |-> name, D |-> D, W |-> W, jit |-> jit, kw |-> {"D", "W", "jit"}]

Kwargs ==
    { [supervised |-> TRUE, deterministic |-> FALSE,
       N_train |-> Num(8), b |-> Num(3), c |-> Num(1), delta |-> Fin(HALF),
       penalty_coeff |-> Num(2), init_var |-> Fin(HALF),
       loss_method |-> "fixed_k", jit |-> TRUE,
       train_fn |-> NoFn, eval_fn |-> NoFn],
      [supervised |-> FALSE, deterministic |-> TRUE,
       N_train |-> Num(5), b |-> Num(1), c |-> Num(2), delta |-> Fin(HALF \div 2),
       penalty_coeff |-> Fin(HALF), init_var |-> Fin(ONE \div 100),
       loss_method |-> "increasing_sum", jit |-> FALSE,
       train_fn |-> UserFn("train_fn"), eval_fn |-> UserFn("eval_fn")] }

InputDicts ==
    { [D |-> << <<Num(1), Num(0)>>, <<Num(0), Num(2)>> >>,
       W |-> << <<Num(1), Num(0)>>, <<Num(0), Fin(HALF)>> >>,
       b_mat_train |-> "b_mat_train_A", b_mat_test |-> "b_mat_test_A"],
      [D |-> << <<Num(1), Num(1)>> >>,
       W |-> << <<Fin(HALF), Fin(HALF)>> >>,
       b_mat_train |-> "b_mat_train_B", b_mat_test |-> "b_mat_test_B"] }

NewModel(cls, unrolls, kw) ==
    [cls |-> cls, train_unrolls |-> unrolls, supervised |-> kw.supervised,
     deterministic |-> kw.deterministic, N_train |-> kw.N_train, b |-> kw.b, c |-> kw.c,
     delta |-> kw.delta, penalty_coeff |-> kw.penalty_coeff,
     init_var |-> kw.init_var, loss_method |-> kw.loss_method, jit |-> kw.jit,
     train_fn |-> kw.train_fn, eval_fn |-> kw.eval_fn,
     algo_ready |-> FALSE, factor_static |-> "unset", algo |-> "unset",
     factors_required |-> FALSE, q_mat_train |-> "unset", q_mat_test |-> "unset",
     D |-> NoMat, W |-> NoMat, m |-> 0, n |-> 0, output_size |-> 0,
     ista_step |-> NotPassed, k_steps_train_fn |-> NoFn,
     k_steps_eval_fn |-> NoFn, out_axes_length |-> 0,
     params_ready |-> FALSE, mean_params |-> NoMat, sigma_params |-> NoMat,
     prior_param |-> << >>, params |-> << >>]

----------------------------------------------------------------------------
(* initialize_algo                                                         *)

ista_step_of(D) == Div(LAMBD_01, eigh_max(Gram(D)))

initialize_algo(self, input_dict) ==
    [self EXCEPT
       !.algo_ready = TRUE,
       !.factor_static = "None",
       !.algo = AlgoName(self.cls),
       !.factors_required = FALSE,
       !.q_mat_train = input_dict.b_mat_train,
       !.q_mat_test = input_dict.b_mat_test,
       !.D = input_dict.D,
       !.W = input_dict.W,
       !.m = Rows(input_dict.D),
       !.n = Cols(input_dict.D),
       !.output_size = Cols(input_dict.D),
       !.ista_step = ista_step_of(input_dict.D),
       !.k_steps_train_fn =
           partial(TrainKernel(self.cls), input_dict.D, input_dict.W, self.jit),
       !.k_steps_eval_fn =
           partial(EvalKernel(self.cls), input_dict.D, input_dict.W, self.jit),
       !.out_axes_length = 5]

----------------------------------------------------------------------------
(* init_params                                                             *)

init_mean_col0(cls, unrolls) ==
    IF cls = "ALISTAmodel" THEN jnp_ones(unrolls, 2)
    ELSE SetCol(jnp_ones(unrolls, 5), 1, Fin(HALF))

init_mean(cls, unrolls) ==
    IF cls = "ALISTAmodel" THEN jnp_ones(unrolls, 2)
    ELSE SetCol(jnp_ones(unrolls, 5), 2, Fin(HALF))

init_sigma(cls, unrolls) ==
    LET ones == jnp_ones(unrolls, Width(cls))
    IN  [i \in 1..Rows(ones) |->
            [j \in 1..Cols(ones) |-> Mul(Neg(ones[i][j]), Num(10))]]

init_prior(cls, init_var) ==
    [j \in 1..Width(cls) |-> Mul(jnp_log(init_var), Num(1))]

init_params(self) ==
    LET mean_params == init_mean(self.cls, self.train_unrolls)
        sigma_params == init_sigma(self.cls, self.train_unrolls)
        prior_param == init_prior(self.cls, self.init_var)
    IN  [self EXCEPT
           !.params_ready = TRUE,
           !.mean_params = mean_params,
           !.sigma_params = sigma_params,
           !.prior_param = prior_param,
           !.params = <<mean_params, sigma_params, prior_param>>]

----------------------------------------------------------------------------
(* Penalty engine.  params is the triple <<mean, log-variance, prior>>;    *)
(* Python index i is index i + 1 here.                                     *)

RECURSIVE kl_sum(_, _, _, _, _)
kl_sum(mean, var, lambd, i, acc) ==
    IF acc.k = "err" \/ i > Len(mean) THEN acc
    ELSE kl_sum(mean, var, lambd, i + 1,
             Add(acc,
                 Mul(Fin(HALF),
                     Sub(Add(Sub(jnp_log(lambd), jnp_log(var[i])),
                             Div(Add(var[i], Mul(mean[i], mean[i])), lambd)),
                         Num(1)))))

(* KL( prod_i N(mean[i], var[i]) || prod_i N(0, lambd) ) *)
compute_single_param_KL(mean, var, lambd) == kl_sum(mean, var, lambd, 1, Fin(0))

alista_compute_all_params_KL(mean_params, sigma_params, lambd) ==
    LET total_pen == compute_single_param_KL(Col(mean_params, 1),
                         VecExp(Col(sigma_params, 1)), jnp_exp(lambd[1]))
    IN  Add(total_pen,
            compute_single_param_KL(Col(mean_params, 2),
                VecExp(Col(sigma_params, 2)), jnp_exp(lambd[2])))

(* for i in range(5): total_pen += ...; i here is the Python index + 1 *)
RECURSIVE glista_kl_loop(_, _, _, _, _)
glista_kl_loop(mean_params, sigma_params, lambd, i, total_pen) ==
    IF total_pen.k = "err" \/ i > 5 THEN total_pen
    ELSE glista_kl_loop(mean_params, sigma_params, lambd, i + 1,
             Add(total_pen,
                 compute_single_param_KL(Col(mean_params, i),
                     VecExp(Col(sigma_params, i)), jnp_exp(lambd[i]))))

glista_compute_all_params_KL(mean_params, sigma_params, lambd) ==
    glista_kl_loop(mean_params, sigma_params, lambd, 1, Fin(0))

compute_all_params_KL(cls, mean_params, sigma_params, lambd) ==
    IF cls = "ALISTAmodel"
    THEN alista_compute_all_params_KL(mean_params, sigma_params, lambd)
    ELSE glista_compute_all_params_KL(mean_params, sigma_params, lambd)

(* for i in range(num_groups): log_pen += ...; i is the Python index + 1 *)
RECURSIVE alista_log_pen(_, _, _, _, _)
alista_log_pen(rounded_priors, c, b, i, log_pen) ==
    IF log_pen.k = "err" \/ i > Len(rounded_priors) THEN log_pen
    ELSE LET curr_lambd == jnp_clip(jnp_exp(rounded_priors[i]), c)
         IN  alista_log_pen(rounded_priors, c, b, i + 1,
                 Add(log_pen,
                     Mul(TWO, jnp_log(Mul(b, jnp_log(Div(Add(c, EPS_1e6),
                                                         curr_lambd)))))))

alista_pi_pen(num_groups, N_train, delta) ==
    jnp_log(Div(Mul(Mul(Mul(jnp_pi, jnp_pi), Num(num_groups)), N_train),
                Mul(SIX, delta)))

alista_calculate_total_penalty(N_train, params, c, b, delta) ==
    LET rounded_priors == params[3]
        num_groups == Len(rounded_priors)
        pi_pen == alista_pi_pen(num_groups, N_train, delta)
        log_pen == alista_log_pen(rounded_priors, c, b, 1, Fin(0))
        penalty_loss ==
            Add(Add(alista_compute_all_params_KL(params[1], params[2], rounded_priors),
                    pi_pen), log_pen)
    IN  Div(penalty_loss, N_train)

glista_pi_pen(N_train, delta) ==
    jnp_log(Div(Mul(Mul(jnp_pi, jnp_pi), N_train), Mul(SIX, delta)))

glista_log_pen_grouped(params, c, b) ==
    alista_log_pen(params[3], c, b, 1, Fin(0))

glista_log_pen(params, c, b) ==
    Mul(TWO, jnp_log(Mul(b, jnp_log(Div(c, jnp_exp(params[3][1]))))))

glista_calculate_total_penalty(N_train, params, c, b, delta) ==
    LET pi_pen == glista_pi_pen(N_train, delta)
        log_pen == glista_log_pen(params, c, b)
        penalty_loss ==
            Add(Add(glista_compute_all_params_KL(params[1], params[2], params[3]),
                    pi_pen), log_pen)
    IN  Div(penalty_loss, N_train)

calculate_total_penalty(cls, N_train, params, c, b, delta) ==
    IF cls = "ALISTAmodel"
    THEN alista_calculate_total_penalty(N_train, params, c, b, delta)
    ELSE glista_calculate_total_penalty(N_train, params, c, b, delta)

(* opt_guarantees.utils.nn_utils.calculate_pinsker_penalty, called by the  *)
(* forward pass as (N_train, params, b, c, delta): the penalty of section  *)
(* 4.5 for the calling variant.                                            *)
calculate_pinsker_penalty(cls, N_train, params, b, c, delta) ==
    calculate_total_penalty(cls, N_train, params, c, b, delta)

----------------------------------------------------------------------------
(* Forward pass: the closure predict of create_end2end_loss_fn.            *)

PRNGKey_carried(key) ==
    <<0, key + (IF cur.op = "predict" THEN cur.key + 1 ELSE 0)>>

PRNGKey(key) == <<0, key>>

(* jax.random.normal: a fixed function of the key and the shape *)
random_normal(w_key, shape) ==
    [i \in 1..shape[1] |->
        [j \in 1..shape[2] |->
            Fin((((w_key[2] * 7919 + ((i - 1) * shape[2] + j) * 10473 + 12345)
                  % 4001) - 2000) * KILO)]]

sample_always(deterministic, params, perturb) ==
    [i \in 1..Rows(params[1]) |->
        [j \in 1..Cols(params[1]) |->
            Add(params[1][i][j],
                Mul(jnp_sqrt(jnp_exp(params[2][i][j])), perturb[i][j]))]]

stochastic_params_of(deterministic, params, perturb) ==
    IF deterministic THEN params[1]
    ELSE [i \in 1..Rows(params[1]) |->
            [j \in 1..Cols(params[1]) |->
                Add(params[1][i][j],
                    Mul(jnp_sqrt(jnp_exp(params[2][i][j])), perturb[i][j]))]]

branch_diff_first(bypass_nn, diff_required) ==
    IF diff_required THEN "train" ELSE IF bypass_nn THEN "bypass" ELSE "eval"

branch_of(bypass_nn, diff_required) ==
    IF bypass_nn THEN "bypass" ELSE IF diff_required THEN "train" ELSE "eval"

NoCall ==
    [fn |-> "none", k |-> 0, z0 |-> << >>, q |-> << >>, lambd |-> NotPassed,
     A |-> NoMat, ista_step |-> NotPassed, params |-> NoMat,
     supervised |-> FALSE, z_star |-> << >>, jit |-> FALSE,
     D |-> NoMat, W |-> NoMat, kw |-> {}]

ista_call_unsupervised(self, iters, z0, q, z_star, supervised) ==
    [NoCall EXCEPT !.fn = "k_steps_eval_ista", !.k = iters, !.z0 = z0, !.q = q,
        !.lambd = LAMBD_01, !.A = self.D, !.ista_step = self.ista_step,
        !.supervised = supervised, !.z_star = z_star, !.jit = TRUE,
        !.kw = {"k", "z0", "q", "lambd", "A", "ista_step", "supervised",
                "z_star", "jit"}]

ista_call(self, iters, z0, q, z_star, supervised) ==
    [NoCall EXCEPT !.fn = "k_steps_eval_ista", !.k = iters, !.z0 = z0, !.q = q,
        !.lambd = LAMBD_01, !.A = self.D, !.ista_step = self.ista_step,
        !.supervised = TRUE, !.z_star = z_star, !.jit = TRUE,
        !.kw = {"k", "z0", "q", "lambd", "A", "ista_step", "supervised",
                "z_star", "jit"}]

learned_call(f, iters, z0, q, stochastic_params, supervised, z_star) ==
    [NoCall EXCEPT !.fn = f.fn, !.k = iters, !.z0 = z0, !.q = q,
        !.params = stochastic_params, !.supervised = supervised,
        !.z_star = z_star, !.jit = f.jit, !.D = f.D, !.W = f.W,
        !.kw = f.kw \cup {"k", "z0", "q", "params", "supervised", "z_star"}]

train_fn_of(self) ==
    IF self.train_fn.fn # "None" THEN self.train_fn ELSE self.k_steps_train_fn
eval_fn_of(self) ==
    IF self.eval_fn.fn # "None" THEN self.eval_fn ELSE self.k_steps_eval_fn

(* element i (Python index) of the tuple a kernel call returns *)
KernelOut(call, i) == [call |-> call, idx |-> i]
Unbound == [call |-> NoCall, idx |-> 0 - 1]
kernel_result(call, nout) == [i \in 1..nout |-> KernelOut(call, i - 1)]

compose_loss_unscaled(loss, penalty_coeff, penalty_loss) ==
    Add(loss, penalty_loss)

compose_loss(loss, penalty_coeff, penalty_loss) ==
    Add(loss, Mul(penalty_coeff, penalty_loss))

return_out_from2(loss, iter_losses, z_all_plus_1, angles, eval_out) ==
    <<loss, iter_losses, z_all_plus_1, angles>> \o SubSeq(eval_out, 3, Len(eval_out))

return_out(loss, iter_losses, z_all_plus_1, angles, eval_out) ==
    <<loss, iter_losses, z_all_plus_1, angles>> \o SubSeq(eval_out, 4, Len(eval_out))

self_after_predict_storing(self, stochastic_params) ==
    [self EXCEPT !.mean_params = stochastic_params]

(* predict assigns only local names; no attribute of self is written *)
self_after_predict(self, stochastic_params) == self

----------------------------------------------------------------------------
(* State.  model holds the attributes of self.  cur is the record of the   *)
(* last operation: for a forward pass, its arguments, its local names, the *)
(* kernel calls it made and its return value.  prev is the forward pass    *)
(* before the last one (recorded by SpecPair only).  qret is the last      *)
(* penalty / KL query with its arguments.                                  *)

NoRet == [kind |-> "none", loss |-> NotPassed, tup |-> << >>]

NoCur(op) ==
    [op |-> op, bypass_nn |-> FALSE, diff_required |-> FALSE,
     supervised |-> FALSE, params |-> << >>, q |-> << >>, iters |-> 0,
     z_star |-> << >>, key |-> 0, z0 |-> << >>, perturb |-> NoMat,
     stochastic_params |-> NoMat, calls |-> << >>, bound |-> {},
     z_final |-> Unbound, iter_losses |-> Unbound, z_all_plus_1 |-> Unbound,
     angles |-> "unbound", eval_out |-> << >>, final_loss_args |-> << >>,
     task_loss |-> NotPassed, penalty_loss |-> NotPassed, ret |-> NoRet]

NoQuery ==
    [fn |-> "none", N_train |-> NotPassed, params |-> << >>, c |-> NotPassed,
     b |-> NotPassed, delta |-> NotPassed, val |-> NotPassed]

(* parameter triples of the model's shape, as a training run produces them *)
Triple(rows, width, meanv, lv, prior) ==
    <<Mat(rows, width, meanv), Mat(rows, width, lv), prior>>

StepTriple(rows, width) ==
    Triple(rows, width, Fin(8 * (ONE \div 10)), Num(0 - 2), Vec(width, Num(0 - 1)))

OtherTriple(rows, width) ==
    Triple(rows, width, Fin(3 * (ONE \div 10)), Num(0 - 1),
           [Vec(width, Num(0 - 1)) EXCEPT ![2] = Num(1)])

TrainedTriples(rows, width) ==
    { StepTriple(rows, width),
      OtherTriple(rows, width),
      Triple(rows, width, Fin(HALF), Num(0 - 1),
             [Vec(width, Num(0)) EXCEPT ![2] = Num(0 - 1)]),
      Triple(rows, width, Fin(HALF), Num(0 - 1),
             [Vec(width, Num(0 - 1)) EXCEPT ![1] = Num(1)]) }

(* what a caller passes as params: the model's own set or a trained one *)
ParamChoices(self) ==
    {OtherTriple(self.train_unrolls, Width(self.cls))}
        \cup (IF self.params_ready THEN {self.params}
              ELSE {StepTriple(self.train_unrolls, Width(self.cls))})

(* one training or evaluation example with what the external final_loss    *)
(* and evaluation kernels hand back for it                                 *)
Examples(self) ==
    { [q |-> Vec(self.m, Num(1)), z_star |-> Vec(self.n, Num(1)), iters |-> 1,
       task_loss |-> Num(1), nout |-> 3],
      [q |-> Vec(self.m, Fin(HALF)), z_star |-> Vec(self.n, Num(2)),
       iters |-> self.train_unrolls + 1, task_loss |-> Fin(HALF \div 2),
       nout |-> 3 + 2] }

Seeds == {0, 7}

Consts == {Num(1), Num(2)}

Init ==
    /\ \E cls \in Classes, unrolls \in 1..MaxUnroll, kw \in Kwargs :
          model = NewModel(cls, unrolls, kw)
    /\ cur = NoCur("none")
    /\ prev = NoCur("none")
    /\ qret = NoQuery

InitializeAlgo ==
    /\ \E input_dict \in InputDicts : model' = initialize_algo(model, input_dict)
    /\ cur' = NoCur("initialize_algo")
    /\ qret' = NoQuery

InitParams ==
    /\ model' = init_params(model)
    /\ cur' = NoCur("init_params")
    /\ qret' = NoQuery

(* the training-step optimizer replaces the parameter set between calls *)
OptimizerStep ==
    /\ model.params_ready
    /\ model.params # StepTriple(model.train_unrolls, Width(model.cls))
    /\ model' = [model EXCEPT
                    !.params = StepTriple(model.train_unrolls, Width(model.cls))]
    /\ cur' = NoCur("optimizer")
    /\ qret' = NoQuery

(* create_end2end_loss_fn(bypass_nn, diff_required) followed by one call   *)
(* of predict(params, input, q, iters, z_star, key, factor) on an example  *)
(* ex; input and factor are not read.  ex.task_loss is the value the       *)
(* external self.final_loss returns, ex.nout the length of the evaluation  *)
(* kernel's result tuple.  stochastic_params (lines 75-82) and             *)
(* penalty_loss (lines 117-118) are handed in by PredictWith, which        *)
(* computes them from params and key.                                      *)
predict(bypass_nn, diff_required, params, ex, key, perturb, stochastic_params, penalty_loss) ==
    LET supervised == model.supervised /\ diff_required
        loss_method == model.loss_method
        z0 == jnp_zeros(Len(ex.z_star))
        train_fn == train_fn_of(model)
        eval_fn == eval_fn_of(model)
        branch == branch_of(bypass_nn, diff_required)
        call == IF branch = "bypass"
                THEN ista_call(model, ex.iters, z0, ex.q, ex.z_star, supervised)
                ELSE IF branch = "train"
                THEN learned_call(train_fn, ex.iters, z0, ex.q, stochastic_params,
                                  supervised, ex.z_star)
                ELSE learned_call(eval_fn, ex.iters, z0, ex.q, stochastic_params,
                                  supervised, ex.z_star)
        eval_out == IF branch = "train" THEN << >> ELSE kernel_result(call, ex.nout)
        train_out == kernel_result(call, 2)
        z_final == IF branch = "train" THEN train_out[1] ELSE eval_out[1]
        iter_losses == IF branch = "train" THEN train_out[2] ELSE eval_out[2]
        z_all_plus_1 == IF branch = "train" THEN Unbound ELSE eval_out[3]
        angles == IF branch = "train" THEN "unbound" ELSE "None"
        loss == compose_loss(ex.task_loss, model.penalty_coeff, penalty_loss)
    IN  /\ model' = self_after_predict(model, stochastic_params)
        /\ cur' = [op |-> "predict", bypass_nn |-> bypass_nn,
                   diff_required |-> diff_required, supervised |-> supervised,
                   params |-> params, q |-> ex.q, iters |-> ex.iters,
                   z_star |-> ex.z_star, key |-> key, z0 |-> z0,
                   perturb |-> perturb, stochastic_params |-> stochastic_params,
                   calls |-> <<call>>,
                   bound |-> IF branch = "train" THEN {}
                             ELSE {"eval_out", "z_all_plus_1", "angles"},
                   z_final |-> z_final, iter_losses |-> iter_losses,
                   z_all_plus_1 |-> z_all_plus_1, angles |-> angles,
                   eval_out |-> eval_out,
                   final_loss_args |-> <<loss_method, z_final, iter_losses,
                                         supervised, z0, ex.z_star>>,
                   task_loss |-> ex.task_loss, penalty_loss |-> penalty_loss,
                   ret |-> IF diff_required
                           THEN [kind |-> "scalar", loss |-> loss, tup |-> << >>]
                           ELSE [kind |-> "tuple", loss |-> loss,
                                 tup |-> return_out(loss, iter_losses,
                                             z_all_plus_1, angles, eval_out)]]
        /\ qret' = NoQuery

PredictSampled(ExampleSet, params, penalty_loss, key, perturb) ==
    \E bypass_nn \in BOOLEAN, diff_required \in BOOLEAN, ex \in ExampleSet :
        predict(bypass_nn, diff_required, params, ex, key, perturb,
                stochastic_params_of(model.deterministic, params, perturb),
                penalty_loss)

PredictKeyed(Keys, ExampleSet, params, penalty_loss) ==
    \E key \in Keys :
        PredictSampled(ExampleSet, params, penalty_loss, key,
            random_normal(PRNGKey(key), <<model.train_unrolls, Width(model.cls)>>))

PredictWith(ParamSet, Keys, ExampleSet) ==
    \E params \in ParamSet :
        \E penalty_loss \in {calculate_pinsker_penalty(model.cls, model.N_train,
                                  params, model.b, model.c, model.delta)} :
            PredictKeyed(Keys, ExampleSet, params, penalty_loss)

Predict ==
    /\ model.algo_ready
    /\ PredictWith(ParamChoices(model), Seeds, Examples(model))
    /\ UNCHANGED prev

CalculateTotalPenalty ==
    /\ \E params \in TrainedTriples(model.train_unrolls, Width(model.cls)) \
                        {StepTriple(model.train_unrolls, Width(model.cls))},
          c \in Consts :
          qret' = [fn |-> "calculate_total_penalty", N_train |-> model.N_train,
                   params |-> params, c |-> c, b |-> model.b, delta |-> model.delta,
                   val |-> calculate_total_penalty(model.cls, model.N_train,
                               params, c, model.b, model.delta)]
    /\ cur' = NoCur("calculate_total_penalty")
    /\ UNCHANGED model

ComputeAllParamsKL ==
    /\ \E params \in {StepTriple(model.train_unrolls, Width(model.cls))} :
          qret' = [fn |-> "compute_all_params_KL", N_train |-> NotPassed,
                   params |-> params, c |-> NotPassed, b |-> NotPassed,
                   delta |-> NotPassed,
                   val |-> compute_all_params_KL(model.cls, params[1], params[2],
                                                 params[3])]
    /\ cur' = NoCur("compute_all_params_KL")
    /\ UNCHANGED model

Next ==
    \/ InitializeAlgo /\ UNCHANGED prev
    \/ InitParams /\ UNCHANGED prev
    \/ OptimizerStep /\ UNCHANGED prev
    \/ Predict
    \/ CalculateTotalPenalty /\ UNCHANGED prev
    \/ ComputeAllParamsKL /\ UNCHANGED prev

Spec == Init /\ [][Next]_vars

(* SpecPair: the same operations with prev recording the operation before  *)
(* the last one, on the largest unroll length and one example, so that two *)
(* consecutive forward passes can be compared.                             *)

PairExamples(self) == {ex \in Examples(self) : ex.iters = 1}

InitPair ==
    /\ \E cls \in Classes, kw \in Kwargs : model = NewModel(cls, MaxUnroll, kw)
    /\ cur = NoCur("none")
    /\ prev = NoCur("none")
    /\ qret = NoQuery

PredictPair ==
    /\ model.algo_ready
    /\ PredictWith(TrainedTriples(model.train_unrolls, Width(model.cls))
                       \ {t \in TrainedTriples(model.train_unrolls, Width(model.cls)) :
                             t[1][1][1] = Fin(HALF)},
                   Seeds, PairExamples(model))
    /\ prev' = cur

NextPair ==
    \/ InitializeAlgo /\ prev' = cur
    \/ PredictPair

SpecPair == InitPair /\ [][NextPair]_vars

----------------------------------------------------------------------------
(* Properties.                                                             *)

IsPredict == cur.op = "predict"
TrainFnName ==
    IF model.train_fn.fn # "None" THEN model.train_fn.fn
    ELSE IF model.cls = "ALISTAmodel" THEN "k_steps_train_alista"
    ELSE "k_steps_train_glista"
EvalFnName ==
    IF model.eval_fn.fn # "None" THEN model.eval_fn.fn
    ELSE IF model.cls = "ALISTAmodel" THEN "k_steps_eval_alista"
    ELSE "k_steps_eval_glista"

(* C1: every forward pass invokes exactly one kernel: the baseline        *)
(* k_steps_eval_ista iff bypass_nn, the learned train kernel iff not       *)
(* bypass_nn and diff_required, the learned eval kernel iff neither; never *)
(* zero or two kernels.                                                    *)
C1_ExactlyOneKernel ==
    IsPredict =>
        /\ Len(cur.calls) = 1
        /\ Cardinality({"k_steps_eval_ista", TrainFnName, EvalFnName}) = 3
        /\ (cur.calls[1].fn = "k_steps_eval_ista") <=> cur.bypass_nn
        /\ (cur.calls[1].fn = TrainFnName) <=> (~cur.bypass_nn /\ cur.diff_required)
        /\ (cur.calls[1].fn = EvalFnName) <=> (~cur.bypass_nn /\ ~cur.diff_required)

C1_Witness ==
    /\ IsPredict /\ cur.bypass_nn /\ cur.diff_required
    /\ cur.calls[1].fn = "k_steps_eval_ista"

ExpectedIstaCall ==
    [fn |-> "k_steps_eval_ista", k |-> cur.iters,
     z0 |-> [i \in 1..Len(cur.z_star) |-> Fin(0)], q |-> cur.q,
     lambd |-> Fin(ONE \div 10), A |-> model.D, ista_step |-> model.ista_step,
     params |-> NoMat, supervised |-> TRUE, z_star |-> cur.z_star, jit |-> TRUE,
     D |-> NoMat, W |-> NoMat,
     kw |-> {"k", "z0", "q", "lambd", "A", "ista_step", "supervised", "z_star",
             "jit"}]

BypassPair ==
    /\ IsPredict /\ prev.op = "predict" /\ cur.bypass_nn /\ prev.bypass_nn
    /\ cur.q = prev.q /\ cur.iters = prev.iters /\ cur.z_star = prev.z_star

(* C2: in bypass mode the final estimate, the per-iteration losses and the *)
(* trajectory are those of k_steps_eval_ista called with zero initial      *)
(* estimate, q, k = iters, ista_step, threshold 0.1 and supervised = True; *)
(* two bypass calls that differ only in the parameter triple, the seed or  *)
(* the flags yield the same trajectory.                                    *)
C2_BypassIsBaseline ==
    /\ (IsPredict /\ cur.bypass_nn) =>
          /\ cur.calls = <<ExpectedIstaCall>>
          /\ cur.z_final = [call |-> ExpectedIstaCall, idx |-> 0]
          /\ cur.iter_losses = [call |-> ExpectedIstaCall, idx |-> 1]
          /\ cur.z_all_plus_1 = [call |-> ExpectedIstaCall, idx |-> 2]
          /\ ~cur.diff_required =>
                /\ cur.ret.tup[2] = [call |-> ExpectedIstaCall, idx |-> 1]
                /\ cur.ret.tup[3] = [call |-> ExpectedIstaCall, idx |-> 2]
    /\ BypassPair =>
          /\ cur.z_final = prev.z_final
          /\ cur.iter_losses = prev.iter_losses
          /\ cur.z_all_plus_1 = prev.z_all_plus_1

C2_Witness ==
    /\ BypassPair /\ cur.params # prev.params /\ cur.key # prev.key
    /\ cur.diff_required # prev.diff_required /\ ~model.supervised
    /\ cur.z_all_plus_1 = prev.z_all_plus_1

LogPenaltyVariances(cls, params) ==
    IF cls = "ALISTAmodel" THEN {jnp_exp(params[3][i]) : i \in 1..Len(params[3])}
    ELSE {jnp_exp(params[3][1])}

VarianceNotBelowBound ==
    /\ qret.fn = "calculate_total_penalty"
    /\ \E v \in LogPenaltyVariances(model.cls, qret.params) : ~Lt(v, qret.c)

(* C3 as stated: whenever a prior variance used in the log-penalty term is *)
(* not strictly below c, calculate_total_penalty ends in an error and      *)
(* returns no NaN, infinity or finite number.                              *)
C3_FailsFast == VarianceNotBelowBound => qret.val.k = "err"

(* C3 as amended: whenever a prior variance used in the log-penalty term   *)
(* is not strictly below c, calculate_total_penalty raises no error and    *)
(* returns a NaN, an infinity or a finite number to the caller.            *)
C3_ReturnsNumber ==
    VarianceNotBelowBound => qret.val.k \in {"nan", "pinf", "ninf", "fin"}

C3_Witness ==
    /\ VarianceNotBelowBound /\ model.cls = "GLISTAmodel" /\ qret.val.k = "nan"

C5_ReturnShape ==
    IsPredict =>
        /\ cur.diff_required => (cur.ret.kind = "scalar" /\ cur.ret.loss.k # "absent")
        /\ ~cur.diff_required =>
              /\ cur.ret.kind = "tuple"
              /\ Len(cur.ret.tup) = 4 + (Len(cur.eval_out) - 3)
              /\ cur.ret.tup[1] = cur.ret.loss
              /\ cur.ret.tup[2] = [call |-> cur.calls[1], idx |-> 1]
              /\ cur.ret.tup[3] = [call |-> cur.calls[1], idx |-> 2]
              /\ cur.ret.tup[4] = "None"
              /\ \A i \in 3..(Len(cur.eval_out) - 1) :
                    cur.ret.tup[i + 2] = [call |-> cur.calls[1], idx |-> i]
              /\ {"eval_out", "z_all_plus_1", "angles"} \subseteq cur.bound

C5_Witness ==
    /\ IsPredict /\ ~cur.diff_required /\ ~cur.bypass_nn
    /\ Len(cur.ret.tup) = 6
    /\ cur.ret.tup[6] = [call |-> cur.calls[1], idx |-> 4]

ExpectedSample(mean, logvar, perturb) ==
    [i \in 1..Len(mean) |->
        [j \in 1..Len(mean[i]) |->
            Add(mean[i][j], Mul(jnp_sqrt(jnp_exp(logvar[i][j])), perturb[i][j]))]]

(* C6: with the deterministic flag the realized parameters handed to the   *)
(* learned kernel equal params[0] for every seed and log-variance; without *)
(* it they equal mean + sqrt(exp(log-variance)) * perturbation.            *)
C6_RealizedParams ==
    IsPredict =>
        /\ cur.stochastic_params =
              IF model.deterministic THEN cur.params[1]
              ELSE ExpectedSample(cur.params[1], cur.params[2], cur.perturb)
        /\ ~cur.bypass_nn => cur.calls[1].params = cur.stochastic_params

C6_Witness ==
    /\ IsPredict /\ model.deterministic /\ ~cur.bypass_nn /\ cur.key # 0
    /\ cur.calls[1].params = cur.params[1]
    /\ cur.params[1] # ExpectedSample(cur.params[1], cur.params[2], cur.perturb)

SameSeedAndParams ==
    /\ IsPredict /\ prev.op = "predict"
    /\ cur.key = prev.key /\ cur.params = prev.params

(* C7: two forward passes on the same model with the same seed and the     *)
(* same parameter triple produce the same perturbation and the same        *)
(* realized parameters, whatever ran before.                               *)
C7_Reproducible ==
    SameSeedAndParams =>
        /\ cur.perturb = prev.perturb
        /\ cur.stochastic_params = prev.stochastic_params

C7_Witness ==
    /\ SameSeedAndParams /\ ~model.deterministic /\ cur.key # 0
    /\ cur.bypass_nn # prev.bypass_nn
    /\ cur.stochastic_params # cur.params[1]

WidthOf(cls) == IF cls = "ALISTAmodel" THEN 2 ELSE 5

(* C8: after init_params mean and log-variance have shape (unroll_length,  *)
(* width), the prior has length width (2 for ALISTA, 5 for GLISTA), every  *)
(* log-variance entry is -10, every prior entry log(init_var), every mean  *)
(* entry 1.0 except GLISTA column index 1, which is 0.5.                   *)
C8_InitParams ==
    cur.op = "init_params" =>
        /\ Len(model.mean_params) = model.train_unrolls
        /\ Len(model.sigma_params) = model.train_unrolls
        /\ Len(model.prior_param) = WidthOf(model.cls)
        /\ \A i \in 1..model.train_unrolls :
              /\ Len(model.mean_params[i]) = WidthOf(model.cls)
              /\ Len(model.sigma_params[i]) = WidthOf(model.cls)
              /\ \A j \in 1..WidthOf(model.cls) :
                    /\ model.sigma_params[i][j] = Fin(0 - 10 * ONE)
                    /\ model.mean_params[i][j] =
                          IF model.cls = "GLISTAmodel" /\ j = 2
                          THEN Fin(ONE \div 2) ELSE Fin(ONE)
        /\ \A j \in 1..WidthOf(model.cls) :
              model.prior_param[j] = jnp_log(model.init_var)
        /\ model.params = <<model.mean_params, model.sigma_params, model.prior_param>>

C8_Witness ==
    /\ cur.op = "init_params" /\ model.cls = "GLISTAmodel"
    /\ model.train_unrolls = MaxUnroll
    /\ model.mean_params[MaxUnroll][2] = Fin(HALF)
    /\ model.mean_params[MaxUnroll][1] = Fin(ONE)

RECURSIVE SumKL(_, _, _)
SumKL(params, cols, acc) ==
    IF acc.k = "err" \/ cols = {} THEN acc
    ELSE LET i == CHOOSE i \in cols : TRUE
         IN  SumKL(params, cols \ {i},
                   Add(acc, compute_single_param_KL(
                                [r \in 1..Len(params[1]) |-> params[1][r][i]],
                                [r \in 1..Len(params[2]) |-> jnp_exp(params[2][r][i])],
                                jnp_exp(params[3][i]))))

RECURSIVE SumClippedLogPen(_, _, _, _)
SumClippedLogPen(prior, idx, c, b) ==
    IF idx = {} THEN Fin(0)
    ELSE LET i == CHOOSE i \in idx : TRUE
             v == jnp_exp(prior[i])
             clipped == IF Lt(c, v) THEN c ELSE v
         IN  Add(Mul(Num(2), jnp_log(Mul(b, jnp_log(Div(Add(c, Fin(1)), clipped))))),
                 SumClippedLogPen(prior, idx \ {i}, c, b))

UnionBound(groups, N_train, delta) ==
    jnp_log(Div(Mul(Mul(Mul(Fin(PI_FIX), Fin(PI_FIX)), groups), N_train),
                Mul(Num(6), delta)))

ExpectedPenalty(cls, N_train, params, c, b, delta) ==
    IF cls = "GLISTAmodel"
    THEN Div(Add(Add(SumKL(params, 1..5, Fin(0)),
                     jnp_log(Div(Mul(Mul(Fin(PI_FIX), Fin(PI_FIX)), N_train),
                                 Mul(Num(6), delta)))),
                 Mul(Num(2), jnp_log(Mul(b, jnp_log(Div(c, jnp_exp(params[3][1]))))))),
             N_train)
    ELSE Div(Add(Add(SumKL(params, 1..2, Fin(0)),
                     UnionBound(Num(Len(params[3])), N_train, delta)),
                 SumClippedLogPen(params[3], 1..Len(params[3]), c, b)),
             N_train)

(* C9: GLISTA's penalty is (KL summed over all 5 columns + union-bound     *)
(* term without num_groups + one log-penalty term from prior[0]) /         *)
(* N_train; ALISTA's sums one clipped log-penalty term per prior entry and *)
(* multiplies the union-bound argument by the number of groups.            *)
C9_PenaltyFormulas ==
    qret.fn = "calculate_total_penalty" =>
        qret.val = ExpectedPenalty(model.cls, qret.N_train, qret.params, qret.c,
                                   qret.b, qret.delta)

C9_Witness ==
    /\ qret.fn = "calculate_total_penalty" /\ model.cls = "GLISTAmodel"
    /\ qret.val.k = "fin" /\ qret.params[3][2] # qret.params[3][1]

(* C10: a forward pass and the penalty / KL queries leave every attribute  *)
(* of the model unchanged; only initialize_algo, init_params and the       *)
(* optimizer write model state.                                            *)
C10_OnlySetupWritesModel ==
    [][model' # model => cur'.op \in {"initialize_algo", "init_params", "optimizer"}]_vars

C10_Witness ==
    /\ IsPredict /\ ~cur.bypass_nn /\ model.params_ready
    /\ cur.stochastic_params # model.mean_params
    /\ cur.params = model.params

====
